---- MODULE Spec2Model ----
(***************************************************************************)
(* A model of pykiq: a client library that enqueues jobs for Sidekiq.      *)
(*                                                                         *)
(* The model covers the Connector state machine (RedisConnector and the    *)
(* example's ConsoleConnector), the Redis backend it writes to (the        *)
(* 'queues' set and the per-queue lists), and the scheduling chain         *)
(* Job._perform_async -> Job._perform_in -> SidekiqQueue.enqueue ->        *)
(* Sidekiq.push_to_queue -> Connector.push_to_queue.                       *)
(*                                                                         *)
(* Strings that the code builds with str.format are sequences of tokens:   *)
(* "queue:low" is <<"queue", "low">>.  A Python dict is a function from    *)
(* its keys to its values.  A naive datetime is a local wall-clock reading *)
(* and datetime.timestamp() converts it back to an epoch instant under the *)
(* process's time zone.  A raised exception is the 'exc' field of a call's *)
(* result; "none" means the call returned.                                 *)
(***************************************************************************)
EXTENDS Integers, Sequences, FiniteSets, TLC

VARIABLES kind, connected, redis_connection, registry, lists, clock, tz, last

\* for the threads that call one connector at the same time: whether the
\* callers put one mutex around every call (locking) and who holds it (lock),
\* where each thread is in the method it called (pc), its local values
\* (local), and whether a write reached the backend while the connector was
\* disconnected and held no connection (late_write)
VARIABLES locking, lock, pc, local, late_write

threadvars == <<locking, lock, pc, local, late_write>>

vars == <<kind, connected, redis_connection, registry, lists, clock, tz, last, locking, lock, pc, local, late_write>>

(***************************************************************************)
(* Bounds of the model.                                                    *)
(***************************************************************************)
MaxClock == 1
MaxDelay == 2
MaxRecords == 2
MaxLatency == 1

(***************************************************************************)
(* protocol.py                                                             *)
(***************************************************************************)
SIDEKIQ_CLASS_NAME == "class"
SIDEKIQ_SCHEDULE_AT == "at"
SIDEKIQ_QUEUE == "queue"
SIDEKIQ_ARGS == "args"
SIDEKIQ_JOB_ID == "jid"
SIDEKIQ_CREATED == "created_at"
SIDEKIQ_ENQUEUED == "enqueued_at"
SIDEKIQ_QUEUES_NAME == "queues"

\* SIDEKIQ_QUEUE_TPL.format(name): "queue:{}" with the name filled in.
SIDEKIQ_QUEUE_TPL_format(name) == <<"queue">> \o name

(***************************************************************************)
(* Python values.                                                          *)
(***************************************************************************)
\* None, for a value that is otherwise a sequence (a str, a job id).
None == <<>>

\* dict()
EmptyDict == <<>>

\* d[k] = v on a dict d
DictSet(d, k, v) == (k :> v) @@ d

\* dict(d): a shallow copy; the copy is a value of its own
DictCopy(d) == [k \in DOMAIN d |-> d[k]]

\* json.dumps(d): the text of the record, all keys and values kept
to_json_str(d) == [json |-> d]

(***************************************************************************)
(* The wall clock.  A time zone is either a fixed offset (shift = 0) or    *)
(* one whose local time jumps forward by 'shift' at the instant 'gap_at'.  *)
(***************************************************************************)
TimeZones == {[gap_at |-> 0, shift |-> 0], [gap_at |-> 1, shift |-> 1]}

\* datetime.now(): the naive local reading of the epoch instant u
datetime_now(zone, u) == IF u < zone.gap_at THEN u ELSE u + zone.shift

\* naive.timestamp(): the epoch instant of the naive local reading w
\* (a reading inside the gap is taken with the offset before the jump)
timestamp(zone, w) == IF w < zone.gap_at + zone.shift THEN w ELSE w - zone.shift

(***************************************************************************)
(* The inputs the environment draws from.                                  *)
(***************************************************************************)
ShortNames == {<<"low">>, <<"regular">>}

\* names a caller may hand to Connector.push_to_queue: short or resolved
PushNames == {<<"low">>, SIDEKIQ_QUEUE_TPL_format(<<"low">>)}

PushValues == {DictSet(EmptyDict, SIDEKIQ_CLASS_NAME, "SayHello")}

ConnectorKinds == {"redis", "console"}

(***************************************************************************)
(* Connector (connector.py)                                                *)
(* A connector is [connected, conn]; conn is the RedisConnector's          *)
(* __redis_connection: "None", "own" (opened by connect) or "adopted".     *)
(* The backend is [registry, lists].                                       *)
(***************************************************************************)
Connector_init == [connected |-> FALSE, conn |-> "None"]

_toggle_connection_state(c) == [c EXCEPT !.connected = ~c.connected]

Raise(e, c, b) == [exc |-> e, ret |-> -1, c |-> c, b |-> b]

Return(r, c, b) == [exc |-> "none", ret |-> r, c |-> c, b |-> b]

RedisConnector_connect(c, b) ==
    IF c.connected
    THEN Raise("ConnectionError", c, b)
    ELSE Return(-1, _toggle_connection_state([c EXCEPT !.conn = "own"]), b)

\* reuse_connection that keeps the connection and leaves the state as it is
RedisConnector_reuse_connection_not_toggling(c, b, redis) ==
    IF c.connected
    THEN Raise("ConnectionError", c, b)
    ELSE Return(-1, [c EXCEPT !.conn = redis], b)

RedisConnector_reuse_connection(c, b, redis) ==
    IF c.connected
    THEN Raise("ConnectionError", c, b)
    ELSE Return(-1, _toggle_connection_state([c EXCEPT !.conn = redis]), b)

\* from_existing_connection: RedisConnector(error_handler), then reuse_connection
RedisConnector_from_existing_connection(b, redis_connection_) ==
    RedisConnector_reuse_connection(Connector_init, b, redis_connection_)

\* disconnect that keeps the connection it held
RedisConnector_disconnect_keeping_connection(c, b) ==
    IF ~c.connected
    THEN Raise("ConnectionError", c, b)
    ELSE Return(-1, _toggle_connection_state(c), b)

\* disconnect that toggles the state before it fails
RedisConnector_disconnect_toggling_on_failure(c, b) ==
    IF ~c.connected
    THEN Raise("ConnectionError", _toggle_connection_state(c), b)
    ELSE Return(-1, [_toggle_connection_state(c) EXCEPT !.conn = "None"], b)

RedisConnector_disconnect(c, b) ==
    IF ~c.connected
    THEN Raise("ConnectionError", c, b)
    ELSE Return(-1, [_toggle_connection_state(c) EXCEPT !.conn = "None"], b)

\* redis.sadd(key, member); 'registry' is the set stored under "queues"
sadd(b, key, member) ==
    IF key = SIDEKIQ_QUEUES_NAME THEN [b EXCEPT !.registry = @ \cup {member}] ELSE b

\* a push that puts the value at the tail of the list
rpush(b, key, value) ==
    [b EXCEPT !.lists =
        (key :> ((IF key \in DOMAIN @ THEN @[key] ELSE <<>>) \o <<value>>)) @@ @]

\* redis.lpush(key, value): the value becomes the head of the list
lpush(b, key, value) ==
    [b EXCEPT !.lists =
        (key :> (<<value>> \o (IF key \in DOMAIN @ THEN @[key] ELSE <<>>))) @@ @]

\* push_to_queue without its connection check
RedisConnector_push_to_queue_unchecked(c, b, zone, u, queue_name, values, tstamp_key_name) ==
    LET now == datetime_now(zone, u)
        data == DictSet(DictCopy(values), tstamp_key_name, timestamp(zone, now))
    IN  Return(now, c,
               lpush(sadd(b, SIDEKIQ_QUEUES_NAME, queue_name),
                     SIDEKIQ_QUEUE_TPL_format(queue_name), to_json_str(data)))

RedisConnector_push_to_queue(c, b, zone, u, queue_name, values, tstamp_key_name) ==
    IF ~c.connected \/ c.conn = "None"
    THEN Raise("ConnectionError", c, b)
    ELSE LET now == datetime_now(zone, u)
             data == DictSet(DictCopy(values), tstamp_key_name, timestamp(zone, now))
             encoded_data == to_json_str(data)
         IN  Return(now, c,
                    lpush(sadd(b, SIDEKIQ_QUEUES_NAME, queue_name),
                          SIDEKIQ_QUEUE_TPL_format(queue_name), encoded_data))

\* the two writes of push_to_queue, each of which the redis client may end
\* with an error of its own
RedisWrites == {"sadd", "lpush"}

\* an interrupted push that writes the list before the registry
RedisConnector_push_to_queue_interrupted_list_first(c, b, zone, u, queue_name, values, tstamp_key_name, fault) ==
    IF ~c.connected \/ c.conn = "None"
    THEN Raise("ConnectionError", c, b)
    ELSE LET now == datetime_now(zone, u)
             data == DictSet(DictCopy(values), tstamp_key_name, timestamp(zone, now))
             encoded_data == to_json_str(data)
         IN  IF fault = "lpush"
             THEN Raise("RedisError", c, b)
             ELSE Raise("RedisError", c,
                        lpush(b, SIDEKIQ_QUEUE_TPL_format(queue_name), encoded_data))

\* push_to_queue in which the write 'fault' fails (the process dies in it,
\* or the redis client raises): the writes before it are done, it and the
\* writes after it are not
RedisConnector_push_to_queue_interrupted(c, b, zone, u, queue_name, values, tstamp_key_name, fault) ==
    IF ~c.connected \/ c.conn = "None"
    THEN Raise("ConnectionError", c, b)
    ELSE LET now == datetime_now(zone, u)
             data == DictSet(DictCopy(values), tstamp_key_name, timestamp(zone, now))
             encoded_data == to_json_str(data)
         IN  IF fault = "sadd"
             THEN Raise("RedisError", c, b)
             ELSE Raise("RedisError", c, sadd(b, SIDEKIQ_QUEUES_NAME, queue_name))

(***************************************************************************)
(* ConsoleConnector (example/my_kiq.py)                                    *)
(***************************************************************************)
ConsoleConnector_connect(c, b) == Return(-1, _toggle_connection_state(c), b)

ConsoleConnector_disconnect(c, b) == Return(-1, _toggle_connection_state(c), b)

ConsoleConnector_push_to_queue(c, b, zone, u, queue_name, values, tstamp_key_name) ==
    Return(datetime_now(zone, u), c, b)

(***************************************************************************)
(* Dispatch on the connector's class.                                      *)
(***************************************************************************)
connect(k, c, b) ==
    IF k = "redis" THEN RedisConnector_connect(c, b) ELSE ConsoleConnector_connect(c, b)

disconnect(k, c, b) ==
    IF k = "redis" THEN RedisConnector_disconnect(c, b)
    ELSE ConsoleConnector_disconnect(c, b)

push_to_queue(k, c, b, zone, u, queue_name, values, tstamp_key_name) ==
    IF k = "redis"
    THEN RedisConnector_push_to_queue(c, b, zone, u, queue_name, values, tstamp_key_name)
    ELSE ConsoleConnector_push_to_queue(c, b, zone, u, queue_name, values, tstamp_key_name)

(***************************************************************************)
(* The context manager of Connector (connector.py) and the error handler   *)
(* (error.py).  'handled' is the sequence of <<message, error>> the        *)
(* handler was given during the call; every handler of error.py returns    *)
(* True and raises nothing.                                                *)
(***************************************************************************)
ErrorHandler_handle(handled, message, error) == Append(handled, <<message, error>>)

ScopeResult(e, r, c, b, handled) ==
    [exc |-> e, ret |-> r, c |-> c, b |-> b, handled |-> handled]

\* __enter__: returns "self" or "None"
Connector_enter(k, c, b) ==
    LET r == connect(k, c, b)
    IN  IF r.exc = "none"
        THEN ScopeResult("none", "self", r.c, r.b, <<>>)
        ELSE IF r.exc = "ConnectionError"
             THEN ScopeResult("none", "None", r.c, r.b,
                      ErrorHandler_handle(<<>>, "Error while establishing connection",
                                          r.exc))
             ELSE ScopeResult(r.exc, "None", r.c, r.b, <<>>)

\* __exit__ that disconnects without looking at the connection state
Connector_exit_always_disconnects(k, c, b, value) ==
    LET d == disconnect(k, c, b)
    IN  IF d.exc # "none"
        THEN ScopeResult(d.exc, FALSE, d.c, d.b, <<>>)
        ELSE ScopeResult("none", TRUE, d.c, d.b,
                 IF value # "None"
                 THEN ErrorHandler_handle(<<>>, "Connection failure", value)
                 ELSE <<>>)

\* __exit__ that lets the exception in flight go on to the caller
Connector_exit_not_suppressing(k, c, b, value) ==
    LET d == IF c.connected THEN disconnect(k, c, b) ELSE Return(-1, c, b)
    IN  IF d.exc # "none"
        THEN ScopeResult(d.exc, FALSE, d.c, d.b, <<>>)
        ELSE IF value # "None"
             THEN ScopeResult(value, FALSE, d.c, d.b,
                      ErrorHandler_handle(<<>>, "Connection failure", value))
             ELSE ScopeResult("none", TRUE, d.c, d.b, <<>>)

\* __exit__: value is the exception in flight, or "None"
Connector_exit(k, c, b, value) ==
    LET d == IF c.connected THEN disconnect(k, c, b) ELSE Return(-1, c, b)
    IN  IF d.exc # "none"
        THEN ScopeResult(d.exc, FALSE, d.c, d.b, <<>>)
        ELSE ScopeResult("none", TRUE, d.c, d.b,
                 IF value # "None"
                 THEN ErrorHandler_handle(<<>>, "Connection failure", value)
                 ELSE <<>>)

(***************************************************************************)
(* Calling push_to_queue.  Python binds the positional arguments to the    *)
(* parameters before the body runs; a call with a different number of      *)
(* arguments raises TypeError and nothing of the body is executed.         *)
(***************************************************************************)
\* push_to_queue(self, queue_name, values, tstamp_key_name)
push_to_queue_params == 3

Call_push_to_queue(k, c, b, zone, u, argv) ==
    IF Len(argv) # push_to_queue_params
    THEN Raise("TypeError", c, b)
    ELSE push_to_queue(k, c, b, zone, u, argv[1], argv[2], argv[3])

(***************************************************************************)
(* Sidekiq (sidekiq.py)                                                    *)
(***************************************************************************)
number_of_bytes_in_jid == 12

HexDigits == {"0", "f"}

\* secrets.token_hex(nbytes): nbytes random bytes, two hex digits each
token_hex(nbytes) == {[i \in 1..(2 * nbytes) |-> h] : h \in HexDigits}

Sidekiq_generate_jid == token_hex(number_of_bytes_in_jid)

\* the Sidekiq object of the run: Sidekiq(connector, None)
Sidekiq_init == [queue_namespace |-> "None"]

\* Sidekiq(connector, queue_namespace): the namespace is stored
Sidekiq_with_namespace(queue_namespace) == [queue_namespace |-> queue_namespace]

\* Namespace.get_full_name(instance) of a namespace that puts its prefix
\* before the default full name
Namespace_get_full_name(namespace, instance) ==
    <<namespace.prefix>> \o SIDEKIQ_QUEUE_TPL_format(instance.name)

\* the outcome of a call of the scheduling chain
\* (calls: calls of the connector's push_to_queue; gen: the job id generated;
\* data: the mapping SidekiqQueue.enqueue built; now: the datetime the connector
\* returned; payload: what enqueue returned)
Outcome(e, r, c, b, calls, gen, data, now) ==
    [exc |-> e, ret |-> r, c |-> c, b |-> b, calls |-> calls, gen |-> gen,
     data |-> data, now |-> now, payload |-> EmptyDict]

Sidekiq_push_to_queue(k, c, b, zone, u, kiq, queue_name, mapped_args, jid) ==
    LET result == DictSet(DictCopy(mapped_args), SIDEKIQ_JOB_ID, jid)
        pushed == Call_push_to_queue(k, c, b, zone, u,
                      <<queue_name, result, SIDEKIQ_ENQUEUED, kiq.queue_namespace>>)
    IN  IF pushed.exc # "none"
        THEN Outcome(pushed.exc, None, pushed.c, pushed.b, 1, jid, mapped_args, -1)
        ELSE Outcome("none",
                     <<jid, DictSet(result, SIDEKIQ_ENQUEUED, timestamp(zone, pushed.ret))>>,
                     pushed.c, pushed.b, 1, jid, mapped_args, pushed.ret)

(***************************************************************************)
(* SidekiqQueue (sidekiq.py).  A queue is [name, namespace]; namespace is  *)
(* "empty" for the _EmptySidekiqNamespace a queue gets by default.         *)
(***************************************************************************)
EmptySidekiqNamespace_get_full_name(instance) ==
    SIDEKIQ_QUEUE_TPL_format(instance.name)

(***************************************************************************)
(* namespaces.py.  The module starts with                                  *)
(*     from .connector import QueueNamespace                               *)
(* and connector.py defines Connector and RedisConnector only.             *)
(***************************************************************************)
connector_module_names == {"Connector", "RedisConnector"}

import_from_connector(name) ==
    IF name \in connector_module_names THEN "none" ELSE "ImportError"

namespaces_import == import_from_connector("QueueNamespace")

\* "{}:{}".format(self.__prefix, name), name being what the base class made
\* of the queue name
PrefixedNamespace_get_name(prefix, name) == <<prefix>> \o name

\* PrefixedNamespace(prefix), after importing it from pykiq.namespaces
PrefixedNamespace_init(prefix) ==
    IF namespaces_import # "none"
    THEN [exc |-> namespaces_import, ret |-> "None"]
    ELSE [exc |-> "none", ret |-> [prefix |-> prefix]]

\* SidekiqQueue(name, kiq, namespace): namespace or _EmptySidekiqNamespace()
SidekiqQueue_init(name, namespace) ==
    [name |-> name, namespace |-> IF namespace = "None" THEN "empty" ELSE namespace]

SidekiqQueue_get_name(queue) == queue.name

\* self.__namespace.get_full_name(self); of the namespace classes only
\* _EmptySidekiqNamespace has a get_full_name
SidekiqQueue_get_full_name(queue) ==
    IF queue.namespace = "empty"
    THEN [exc |-> "none", ret |-> EmptySidekiqNamespace_get_full_name(queue)]
    ELSE [exc |-> "AttributeError", ret |-> None]

SidekiqQueue_enqueue(k, c, b, zone, u, elapsed, kiq, queue, job, delay, args, jid) ==
    LET now == datetime_now(zone, u)
        schedule_at == now + delay
        data == DictSet(DictSet(DictSet(DictSet(DictSet(EmptyDict,
                    SIDEKIQ_CLASS_NAME, job.klass),
                    SIDEKIQ_SCHEDULE_AT, timestamp(zone, schedule_at)),
                    SIDEKIQ_ARGS, args),
                    SIDEKIQ_CREATED, timestamp(zone, now)),
                    SIDEKIQ_QUEUE, queue.name)
        pushed == Sidekiq_push_to_queue(k, c, b, zone, u + elapsed, kiq, queue, data, jid)
    IN  IF pushed.exc # "none"
        THEN pushed
        ELSE LET result == DictSet(pushed.ret[2], SIDEKIQ_JOB_ID, pushed.ret[1])
             IN  [pushed EXCEPT !.ret = result, !.payload = result]

(***************************************************************************)
(* Job (job.py).  A job is [klass, queue].                                 *)
(***************************************************************************)
Job_init(queue, class_name) == [klass |-> class_name, queue |-> queue]

\* timedelta()
timedelta_zero == 0

\* _perform_in that turns a failure of the chain into an absent job id
Job_perform_in_swallowing(k, c, b, zone, u, elapsed, kiq, job, time_span, args, jid) ==
    LET result == SidekiqQueue_enqueue(k, c, b, zone, u, elapsed, kiq, job.queue,
                                       job, time_span, args, jid)
    IN  IF result.exc # "none"
        THEN [result EXCEPT !.exc = "none", !.ret = None]
        ELSE IF SIDEKIQ_JOB_ID \in DOMAIN result.ret
             THEN [result EXCEPT !.ret = @[SIDEKIQ_JOB_ID]]
             ELSE [result EXCEPT !.ret = None]

Job_perform_in(k, c, b, zone, u, elapsed, kiq, job, time_span, args, jid) ==
    LET result == SidekiqQueue_enqueue(k, c, b, zone, u, elapsed, kiq, job.queue,
                                       job, time_span, args, jid)
    IN  IF result.exc # "none"
        THEN result
        ELSE IF SIDEKIQ_JOB_ID \in DOMAIN result.ret
             THEN [result EXCEPT !.ret = @[SIDEKIQ_JOB_ID]]
             ELSE [result EXCEPT !.ret = None]

\* _perform_async with a delay that is not zero
Job_perform_async_delayed(k, c, b, zone, u, elapsed, kiq, job, args, jid) ==
    Job_perform_in(k, c, b, zone, u, elapsed, kiq, job, 1, args, jid)

Job_perform_async(k, c, b, zone, u, elapsed, kiq, job, args, jid) ==
    Job_perform_in(k, c, b, zone, u, elapsed, kiq, job, timedelta_zero, args, jid)

(***************************************************************************)
(* The state machine.  One action is one completed call on the one         *)
(* connector, Sidekiq and backend of the run; 'last' records the call.     *)
(***************************************************************************)
Classes == {"SayHello"}

ArgLists == {<<"Hello", "World">>}

Delays == 0..MaxDelay

Prefixes == {"app"}

C == [connected |-> connected, conn |-> redis_connection]

B == [registry |-> registry, lists |-> lists]

RECURSIVE SumLen(_, _)
SumLen(l, keys) ==
    IF keys = {} THEN 0
    ELSE LET key == CHOOSE x \in keys : TRUE
         IN  Len(l[key]) + SumLen(l, keys \ {key})

TotalRecords(l) == SumLen(l, DOMAIN l)

Call(op, exc, name, delay, args, now, ret, data, payload, calls) ==
    [op |-> op, exc |-> exc, was |-> C, name |-> name, delay |-> delay,
     args |-> args, now |-> now, ret |-> ret, data |-> data,
     payload |-> payload, calls |-> calls,
     yielded |-> "None", suppress |-> FALSE, handled |-> <<>>,
     namespace |-> "None"]

ConnectorCall(op, r, name) ==
    Call(op, r.exc, name, 0, <<>>, r.ret, None, EmptyDict, EmptyDict, 0)

Apply(r) ==
    /\ connected' = r.c.connected
    /\ redis_connection' = r.c.conn
    /\ registry' = r.b.registry
    /\ lists' = r.b.lists

\* no call has been made yet
NoCall ==
    [op |-> "init", exc |-> "none", was |-> Connector_init, name |-> None,
     delay |-> 0, args |-> <<>>, now |-> -1, ret |-> None,
     data |-> EmptyDict, payload |-> EmptyDict, calls |-> 0,
     yielded |-> "None", suppress |-> FALSE, handled |-> <<>>,
     namespace |-> "None"]

\* the threads of a program that share the connector
Threads == {"t1", "t2"}

Idle == <<"idle", "idle">>

\* the locals of a thread that is in no call: the method called last (op),
\* how it ended (exc), the state _toggle_connection_state read (state) and
\* the local 'redis' of push_to_queue
NoLocal == [op |-> "none", exc |-> "none", state |-> FALSE, redis |-> "None"]

ThreadsInit ==
    /\ lock = "free"
    /\ pc = [t \in Threads |-> Idle]
    /\ local = [t \in Threads |-> NoLocal]
    /\ late_write = FALSE

Init ==
    /\ kind \in ConnectorKinds
    /\ tz \in TimeZones
    /\ connected = Connector_init.connected
    /\ redis_connection = Connector_init.conn
    /\ registry = {}
    /\ lists = <<>>
    /\ clock = 0
    /\ last = NoCall
    /\ locking = FALSE
    /\ ThreadsInit

Tick ==
    /\ clock < MaxClock
    /\ clock' = clock + 1
    /\ last' = Call("tick", "none", None, 0, <<>>, -1, None, EmptyDict, EmptyDict, 0)
    /\ UNCHANGED <<threadvars, kind, connected, redis_connection, registry, lists, tz>>

Connect ==
    LET r == connect(kind, C, B)
    IN  /\ Apply(r)
        /\ last' = ConnectorCall("connect", r, None)
        /\ UNCHANGED <<threadvars, kind, clock, tz>>

Disconnect ==
    LET r == disconnect(kind, C, B)
    IN  /\ Apply(r)
        /\ last' = ConnectorCall("disconnect", r, None)
        /\ UNCHANGED <<threadvars, kind, clock, tz>>

ReuseConnection ==
    /\ kind = "redis"
    /\ LET r == RedisConnector_reuse_connection(C, B, "adopted")
       IN  /\ Apply(r)
           /\ last' = ConnectorCall("reuse_connection", r, None)
    /\ UNCHANGED <<threadvars, kind, clock, tz>>

\* the connector of the run is made by RedisConnector.from_existing_connection
\* instead of RedisConnector(error_handler)
FromExistingConnection ==
    /\ kind = "redis"
    /\ C = Connector_init
    /\ LET r == RedisConnector_from_existing_connection(B, "adopted")
       IN  /\ Apply(r)
           /\ last' = ConnectorCall("from_existing_connection", r, None)
    /\ UNCHANGED <<threadvars, kind, clock, tz>>

Push(queue_name, values) ==
    LET r == push_to_queue(kind, C, B, tz, clock, queue_name, values, SIDEKIQ_ENQUEUED)
    IN  /\ TotalRecords(r.b.lists) <= MaxRecords
        /\ Apply(r)
        /\ last' = ConnectorCall("push_to_queue", r, queue_name)
        /\ UNCHANGED <<threadvars, kind, clock, tz>>

\* the queue whose push is interrupted
InterruptedNames == {<<"low">>}

\* a push on the RedisConnector that its write 'fault' interrupts
PushInterrupted(queue_name, values, fault) ==
    /\ kind = "redis"
    /\ LET r == RedisConnector_push_to_queue_interrupted(C, B, tz, clock, queue_name,
                     values, SIDEKIQ_ENQUEUED, fault)
       IN  /\ Apply(r)
           /\ last' = [ConnectorCall("push_interrupted", r, queue_name)
                           EXCEPT !.args = <<fault>>]
    /\ UNCHANGED <<threadvars, kind, clock, tz>>

Scheduled(op, r, name, delay, args) ==
    /\ TotalRecords(r.b.lists) <= MaxRecords
    /\ Apply(r)
    /\ last' = Call(op, r.exc, name, delay, args, r.now, r.ret, r.data,
                    r.payload, r.calls)

PerformIn(name, klass, time_span, args) ==
    \E jid \in Sidekiq_generate_jid, elapsed \in 0..MaxLatency :
        /\ clock + elapsed <= MaxClock
        /\ clock' = clock + elapsed
        /\ LET job == Job_init(SidekiqQueue_init(name, "None"), klass)
           IN  Scheduled("perform_in",
                         Job_perform_in(kind, C, B, tz, clock, elapsed, Sidekiq_init,
                                        job, time_span, args, jid),
                         name, time_span, args)
        /\ UNCHANGED <<threadvars, kind, tz>>

PerformAsync(name, klass, args) ==
    \E jid \in Sidekiq_generate_jid, elapsed \in 0..MaxLatency :
        /\ clock + elapsed <= MaxClock
        /\ clock' = clock + elapsed
        /\ LET job == Job_init(SidekiqQueue_init(name, "None"), klass)
           IN  Scheduled("perform_async",
                         Job_perform_async(kind, C, B, tz, clock, elapsed, Sidekiq_init,
                                           job, args, jid),
                         name, 0, args)
        /\ UNCHANGED <<threadvars, kind, tz>>

\* SidekiqQueue(name, kiq).get_full_name()
GetFullName(name) ==
    LET r == SidekiqQueue_get_full_name(SidekiqQueue_init(name, "None"))
    IN  /\ last' = Call("get_full_name", r.exc, name, 0, <<>>, -1, r.ret,
                        EmptyDict, EmptyDict, 0)
        /\ UNCHANGED <<threadvars, kind, connected, redis_connection, registry, lists, clock, tz>>

\* SidekiqQueue(name, kiq, PrefixedNamespace(prefix)).get_full_name()
GetPrefixedFullName(name, prefix) ==
    LET ns == PrefixedNamespace_init(prefix)
        r == IF ns.exc # "none"
             THEN [exc |-> ns.exc, ret |-> None]
             ELSE SidekiqQueue_get_full_name(SidekiqQueue_init(name, ns.ret))
    IN  /\ last' = Call("get_prefixed_full_name", r.exc, name, 0, <<prefix>>, -1,
                        r.ret, EmptyDict, EmptyDict, 0)
        /\ UNCHANGED <<threadvars, kind, connected, redis_connection, registry, lists, clock, tz>>

\* SidekiqQueue(name, Sidekiq(connector, namespace)).get_full_name(): the
\* queue has no namespace of its own
GetFullNameUnder(name, prefix) ==
    LET kiq == Sidekiq_with_namespace([prefix |-> prefix])
        r == SidekiqQueue_get_full_name(SidekiqQueue_init(name, "None"))
    IN  /\ last' = [Call("get_full_name_under", r.exc, name, 0, <<>>, -1, r.ret,
                         EmptyDict, EmptyDict, 0)
                        EXCEPT !.namespace = kiq.queue_namespace.prefix]
        /\ UNCHANGED <<threadvars, kind, connected, redis_connection, registry, lists, clock, tz>>

\* Job(SidekiqQueue(name, Sidekiq(connector, namespace)), klass)._perform_in(0)
PerformInUnder(name, klass, prefix) ==
    \E jid \in Sidekiq_generate_jid :
        LET kiq == Sidekiq_with_namespace([prefix |-> prefix])
            job == Job_init(SidekiqQueue_init(name, "None"), klass)
            r == Job_perform_in(kind, C, B, tz, clock, 0, kiq, job, timedelta_zero,
                                <<>>, jid)
        IN  /\ TotalRecords(r.b.lists) <= MaxRecords
            /\ Apply(r)
            /\ last' = [Call("perform_in_under", r.exc, name, 0, <<>>, r.now, r.ret,
                             r.data, r.payload, r.calls)
                            EXCEPT !.namespace = kiq.queue_namespace.prefix]
            /\ UNCHANGED <<threadvars, kind, clock, tz>>

\* the exceptions a scope body may end with; "None": it ended normally
ExitValues == {"None", "ConnectionError", "AttributeError"}

\* with connector as handle: entering
Enter ==
    LET r == Connector_enter(kind, C, B)
    IN  /\ Apply(r)
        /\ last' = [Call("enter", r.exc, None, 0, <<>>, -1, None, EmptyDict, EmptyDict, 0)
                        EXCEPT !.yielded = r.ret, !.handled = r.handled]
        /\ UNCHANGED <<threadvars, kind, clock, tz>>

\* with connector as handle: leaving, the body having ended with 'value'
Exit(value) ==
    LET r == Connector_exit(kind, C, B, value)
    IN  /\ Apply(r)
        /\ last' = [Call("exit", r.exc, None, 0, <<value>>, -1, None, EmptyDict,
                         EmptyDict, 0)
                        EXCEPT !.suppress = r.ret, !.handled = r.handled]
        /\ UNCHANGED <<threadvars, kind, clock, tz>>

Next ==
    \/ Tick
    \/ Connect
    \/ Disconnect
    \/ ReuseConnection
    \/ FromExistingConnection
    \/ \E queue_name \in PushNames, values \in PushValues : Push(queue_name, values)
    \/ \E queue_name \in InterruptedNames, values \in PushValues, fault \in RedisWrites :
           PushInterrupted(queue_name, values, fault)
    \/ \E name \in ShortNames, klass \in Classes, time_span \in Delays, args \in ArgLists :
           PerformIn(name, klass, time_span, args)
    \/ \E name \in ShortNames, klass \in Classes, args \in ArgLists :
           PerformAsync(name, klass, args)
    \/ \E name \in ShortNames : GetFullName(name)
    \/ \E name \in ShortNames, prefix \in Prefixes : GetPrefixedFullName(name, prefix)
    \/ \E name \in ShortNames, prefix \in Prefixes : GetFullNameUnder(name, prefix)
    \/ \E name \in ShortNames, klass \in Classes, prefix \in Prefixes :
           PerformInUnder(name, klass, prefix)
    \/ Enter
    \/ \E value \in ExitValues : Exit(value)

Spec == Init /\ [][Next]_vars

(***************************************************************************)
(* Threads on one RedisConnector (connector.py).  The methods take no lock *)
(* of their own, so between any two of their statements another thread may *)
(* run; a step below is one read or one write of a field of the connector  *)
(* or one command sent to redis.  Where the callers use a mutex (locking), *)
(* a thread takes it before it calls a method and gives it back when the   *)
(* method has returned or raised.                                          *)
(***************************************************************************)
ThreadOps == {"connect", "disconnect", "push_to_queue"}

\* the queue and the mapping the threads push
ThreadQueue == <<"low">>

ThreadValues == DictSet(EmptyDict, SIDEKIQ_CLASS_NAME, "SayHello")

\* the local time zone of the threads' program
ThreadZone == [gap_at |-> 0, shift |-> 0]

Pushing == {t \in Threads : pc[t][1] = "push_to_queue"}

Goto(t, step) ==
    /\ pc' = [pc EXCEPT ![t] = <<pc[t][1], step>>]
    /\ UNCHANGED <<locking, lock>>

\* the method returns (e = "none") or raises e
Finish(t, e) ==
    /\ pc' = [pc EXCEPT ![t] = Idle]
    /\ local' = [local EXCEPT ![t].exc = e]
    /\ lock' = IF locking THEN "free" ELSE lock
    /\ UNCHANGED locking

\* a call that does not wait for the mutex
Begin_without_mutex(t, op) ==
    /\ pc[t] = Idle
    /\ op = "push_to_queue" => TotalRecords(lists) + Cardinality(Pushing) < MaxRecords
    /\ lock' = lock
    /\ pc' = [pc EXCEPT ![t] = <<op, "check">>]
    /\ local' = [local EXCEPT ![t] = [NoLocal EXCEPT !.op = op]]
    /\ UNCHANGED <<kind, connected, redis_connection, registry, lists, clock, tz, last>>
    /\ UNCHANGED <<locking, late_write>>

\* thread t calls the method op of the connector
Begin(t, op) ==
    /\ pc[t] = Idle
    /\ op = "push_to_queue" => TotalRecords(lists) + Cardinality(Pushing) < MaxRecords
    /\ locking => lock = "free"
    /\ lock' = IF locking THEN t ELSE lock
    /\ pc' = [pc EXCEPT ![t] = <<op, "check">>]
    /\ local' = [local EXCEPT ![t] = [NoLocal EXCEPT !.op = op]]
    /\ UNCHANGED <<kind, connected, redis_connection, registry, lists, clock, tz, last>>
    /\ UNCHANGED <<locking, late_write>>

\* connect: if self._connection_state: raise ConnectionError
Connect_check(t) ==
    /\ pc[t] = <<"connect", "check">>
    /\ IF connected
       THEN Finish(t, "ConnectionError")
       ELSE Goto(t, "assign") /\ UNCHANGED local
    /\ UNCHANGED <<kind, connected, redis_connection, registry, lists, clock, tz, last>>
    /\ UNCHANGED late_write

\* connect: self.__redis_connection = Redis(host, port, db)
Connect_assign(t) ==
    /\ pc[t] = <<"connect", "assign">>
    /\ redis_connection' = "own"
    /\ Goto(t, "toggle_read")
    /\ UNCHANGED <<kind, connected, registry, lists, clock, tz, last>>
    /\ UNCHANGED <<local, late_write>>

\* _toggle_connection_state: the read of self._connection_state
Toggle_read(t) ==
    /\ pc[t][2] = "toggle_read"
    /\ local' = [local EXCEPT ![t].state = connected]
    /\ Goto(t, "toggle_write")
    /\ UNCHANGED <<kind, connected, redis_connection, registry, lists, clock, tz, last>>
    /\ UNCHANGED late_write

\* _toggle_connection_state: the write of the negated value; connect
\* returns after it, disconnect goes on
Toggle_write(t) ==
    /\ pc[t][2] = "toggle_write"
    /\ connected' = ~local[t].state
    /\ IF pc[t][1] = "connect"
       THEN Finish(t, "none")
       ELSE Goto(t, "forget") /\ UNCHANGED local
    /\ UNCHANGED <<kind, redis_connection, registry, lists, clock, tz, last>>
    /\ UNCHANGED late_write

\* disconnect: if not self._connection_state: raise ConnectionError
Disconnect_check(t) ==
    /\ pc[t] = <<"disconnect", "check">>
    /\ IF ~connected
       THEN Finish(t, "ConnectionError")
       ELSE Goto(t, "toggle_read") /\ UNCHANGED local
    /\ UNCHANGED <<kind, connected, redis_connection, registry, lists, clock, tz, last>>
    /\ UNCHANGED late_write

\* disconnect: self.__redis_connection = None
Disconnect_forget(t) ==
    /\ pc[t] = <<"disconnect", "forget">>
    /\ redis_connection' = "None"
    /\ Finish(t, "none")
    /\ UNCHANGED <<kind, connected, registry, lists, clock, tz, last>>
    /\ UNCHANGED late_write

\* push_to_queue: if not self._connection_state or
\* self.__redis_connection is None: raise ConnectionError
Push_check(t) ==
    /\ pc[t] = <<"push_to_queue", "check">>
    /\ IF ~connected \/ redis_connection = "None"
       THEN Finish(t, "ConnectionError")
       ELSE Goto(t, "load") /\ UNCHANGED local
    /\ UNCHANGED <<kind, connected, redis_connection, registry, lists, clock, tz, last>>
    /\ UNCHANGED late_write

\* push_to_queue: redis = self.__redis_connection
Push_load(t) ==
    /\ pc[t] = <<"push_to_queue", "load">>
    /\ local' = [local EXCEPT ![t].redis = redis_connection]
    /\ Goto(t, "sadd")
    /\ UNCHANGED <<kind, connected, redis_connection, registry, lists, clock, tz, last>>
    /\ UNCHANGED late_write

\* the connector is disconnected and holds no connection
Disconnected == ~connected /\ redis_connection = "None"

\* push_to_queue: redis.sadd(SIDEKIQ_QUEUES_NAME, queue_name), on the local
\* 'redis'; None has no sadd
Push_sadd(t) ==
    /\ pc[t] = <<"push_to_queue", "sadd">>
    /\ IF local[t].redis = "None"
       THEN /\ Finish(t, "AttributeError")
            /\ UNCHANGED <<registry, late_write>>
       ELSE /\ registry' = sadd(B, SIDEKIQ_QUEUES_NAME, ThreadQueue).registry
            /\ late_write' = (late_write \/ Disconnected)
            /\ Goto(t, "lpush")
            /\ UNCHANGED local
    /\ UNCHANGED <<kind, connected, redis_connection, lists, clock, tz, last>>

\* push_to_queue: redis.lpush(SIDEKIQ_QUEUE_TPL.format(queue_name), encoded_data)
Push_lpush(t) ==
    /\ pc[t] = <<"push_to_queue", "lpush">>
    /\ LET now == datetime_now(ThreadZone, clock)
           data == DictSet(DictCopy(ThreadValues), SIDEKIQ_ENQUEUED,
                           timestamp(ThreadZone, now))
       IN  lists' = lpush(B, SIDEKIQ_QUEUE_TPL_format(ThreadQueue),
                          to_json_str(data)).lists
    /\ late_write' = (late_write \/ Disconnected)
    /\ Finish(t, "none")
    /\ UNCHANGED <<kind, connected, redis_connection, registry, clock, tz, last>>

ThreadsStart ==
    /\ kind = "redis"
    /\ tz = ThreadZone
    /\ connected = Connector_init.connected
    /\ redis_connection = Connector_init.conn
    /\ registry = {}
    /\ lists = <<>>
    /\ clock = 0
    /\ last = NoCall
    /\ locking \in BOOLEAN
    /\ ThreadsInit

ThreadsNext ==
    \/ \E t \in Threads, op \in ThreadOps : Begin(t, op)
    \/ \E t \in Threads : Connect_check(t)
    \/ \E t \in Threads : Connect_assign(t)
    \/ \E t \in Threads : Toggle_read(t)
    \/ \E t \in Threads : Toggle_write(t)
    \/ \E t \in Threads : Disconnect_check(t)
    \/ \E t \in Threads : Disconnect_forget(t)
    \/ \E t \in Threads : Push_check(t)
    \/ \E t \in Threads : Push_load(t)
    \/ \E t \in Threads : Push_sadd(t)
    \/ \E t \in Threads : Push_lpush(t)

SpecThreads == ThreadsStart /\ [][ThreadsNext]_vars

(***************************************************************************)
(* Properties.  A step with last'.op = o that changes the state is a call  *)
(* of o: every action sets 'last', and 'last.was' is the connector as the  *)
(* call found it.                                                          *)
(***************************************************************************)
ScheduleOps == {"perform_in", "perform_async"}

JidLength == 2 * number_of_bytes_in_jid

IsJobId(s) == Len(s) = JidLength /\ \A i \in 1..Len(s) : s[i] \in HexDigits

ListAt(l, key) == IF key \in DOMAIN l THEN l[key] ELSE <<>>

C2_Connect ==
    [][last'.op = "connect"
         => IF ~connected
            THEN last'.exc = "none" /\ connected'
            ELSE /\ last'.exc = "ConnectionError"
                 /\ connected'
                 /\ redis_connection' = redis_connection]_vars

\* C3 (as claimed): disconnect() on a connected Connector makes it
\* disconnected; disconnect() on a disconnected Connector fails with a
\* not-connected error and leaves the connection state as it was.
C3_Disconnect ==
    [][last'.op = "disconnect"
         => IF connected
            THEN last'.exc = "none" /\ ~connected'
            ELSE last'.exc = "ConnectionError" /\ ~connected']_vars

FullName(name) == SIDEKIQ_QUEUE_TPL_format(name)

\* C4 (as claimed): a scheduling call made on a connected RedisConnector
\* succeeds, has called the connector's push_to_queue exactly once and has
\* added exactly one record to the list of its queue, whatever the list
\* held before.
C4_ScheduleAddsOneRecord ==
    [][(last'.op \in ScheduleOps /\ kind = "redis" /\ connected)
         => /\ last'.exc = "none"
            /\ last'.calls = 1
            /\ Len(ListAt(lists', FullName(last'.name)))
                 = Len(ListAt(lists, FullName(last'.name))) + 1]_vars

\* C5 (as claimed): a scheduling call made on a connected RedisConnector
\* returns a job id of 24 hexadecimal digits, one of those the Dispatcher
\* generates, and it differs from the id the call before it returned.
C5_ScheduleReturnsFreshJobId ==
    [][(last'.op \in ScheduleOps /\ kind = "redis" /\ connected)
         => /\ last'.exc = "none"
            /\ IsJobId(last'.ret)
            /\ last'.ret \in Sidekiq_generate_jid
            /\ (last.op \in ScheduleOps /\ last.exc = "none") => last'.ret # last.ret]_vars

\* C6 (as claimed): the payload SidekiqQueue.enqueue builds for a delay d has
\* 'at' equal to 'created_at' + d.
C6_AtIsCreatedPlusDelay ==
    last.op \in ScheduleOps
      => last.data[SIDEKIQ_SCHEDULE_AT] = last.data[SIDEKIQ_CREATED] + last.delay

\* C7: _perform_async(args) does what _perform_in(zero delay, args) does from
\* the same state and clock: the same exception or returned job id, the same
\* payload (with 'at' equal to 'created_at'), the same call of the connector
\* and the same connector and backend afterwards.
C7_AsyncIsPerformInZero ==
    [][last'.op = "perform_async"
         => \E jid \in Sidekiq_generate_jid, elapsed \in 0..MaxLatency, klass \in Classes :
              LET job == Job_init(SidekiqQueue_init(last'.name, "None"), klass)
                  r == Job_perform_in(kind, C, B, tz, clock, elapsed, Sidekiq_init,
                                      job, 0, last'.args, jid)
              IN  /\ clock' = clock + elapsed
                  /\ last'.exc = r.exc
                  /\ last'.ret = r.ret
                  /\ last'.calls = r.calls
                  /\ last'.data = r.data
                  /\ last'.payload = r.payload
                  /\ last'.now = r.now
                  /\ last'.data[SIDEKIQ_SCHEDULE_AT] = last'.data[SIDEKIQ_CREATED]
                  /\ connected' = r.c.connected
                  /\ redis_connection' = r.c.conn
                  /\ registry' = r.b.registry
                  /\ lists' = r.b.lists]_vars

\* a _perform_async call on a connected connector, after the clock has moved
C7_Witness ==
    /\ last.op = "perform_async"
    /\ last.was.connected
    /\ last.calls = 1
    /\ last.args # <<>>
    /\ last.data[SIDEKIQ_CREATED] > 0

\* C8 (as claimed): enqueueing through a dispatcher with the fake connector
\* succeeds and returns a payload with exactly the fields class, queue (the
\* short name), args (in the given order), jid, at = created_at + delay,
\* created_at and enqueued_at, the last being the connector's timestamp.
C8_EnqueueReturnsPayload ==
    (last.op = "perform_in" /\ kind = "console")
      => /\ last.exc = "none"
         /\ DOMAIN last.payload
              = {SIDEKIQ_CLASS_NAME, SIDEKIQ_QUEUE, SIDEKIQ_ARGS, SIDEKIQ_JOB_ID,
                 SIDEKIQ_SCHEDULE_AT, SIDEKIQ_CREATED, SIDEKIQ_ENQUEUED}
         /\ last.payload[SIDEKIQ_CLASS_NAME] \in Classes
         /\ last.payload[SIDEKIQ_QUEUE] = last.name
         /\ last.payload[SIDEKIQ_ARGS] = last.args
         /\ last.payload[SIDEKIQ_JOB_ID] = last.ret /\ IsJobId(last.ret)
         /\ last.payload[SIDEKIQ_SCHEDULE_AT] = last.payload[SIDEKIQ_CREATED] + last.delay
         /\ last.payload[SIDEKIQ_ENQUEUED] = timestamp(tz, last.now)

\* C9 (as claimed): a push for the queue with short name N adds N to the
\* 'queues' set and puts the record at the head of the list keyed by the full
\* name "queue:N", the template applied once; this holds of a scheduling call
\* on a connected RedisConnector, and of a push in which the connector is
\* handed the resolved full name, as the Dispatcher is said to hand it.
C9_RegistryShortNameListFullName ==
    [][/\ (last'.op \in ScheduleOps /\ kind = "redis" /\ connected)
            => /\ last'.exc = "none"
               /\ last'.name \in registry'
               /\ Len(ListAt(lists', FullName(last'.name)))
                    = Len(ListAt(lists, FullName(last'.name))) + 1
       /\ \A n \in ShortNames :
            (last'.op = "push_to_queue" /\ kind = "redis" /\ last'.exc = "none"
               /\ last'.name = FullName(n))
              => /\ n \in registry'
                 /\ registry' \subseteq registry \cup {n}
                 /\ Len(ListAt(lists', FullName(n)))
                      = Len(ListAt(lists, FullName(n))) + 1]_vars

\* C10 (as claimed): a queue with short name N and no namespace of its own
\* has the full name "queue:N"; the same queue in a prefixed namespace with
\* prefix P has the full name "P:queue:N".
C10_NameResolution ==
    /\ last.op = "get_full_name"
         => last.exc = "none" /\ last.ret = <<"queue">> \o last.name
    /\ last.op = "get_prefixed_full_name"
         => last.exc = "none" /\ last.ret = <<last.args[1], "queue">> \o last.name

\* C12: when __exit__ has returned the connector is disconnected, whatever
\* the scope body ended with and whether or not the connector was connected
\* when __exit__ began; __exit__ itself raises nothing, and on a RedisConnector
\* the connection it held is gone.
C12_ExitLeavesDisconnected ==
    [][last'.op = "exit"
         => /\ last'.exc = "none"
            /\ ~connected'
            /\ kind = "redis" => redis_connection' = "None"]_vars

\* the scope is left with an exception in flight on a connector that is not
\* connected (its entry failed or the body disconnected it)
C12_Witness ==
    /\ last.op = "exit"
    /\ ~last.was.connected
    /\ last.args # <<"None">>
    /\ last.exc = "none"
    /\ ~connected

\* C13: __exit__ never lets an exception through: it returns True, after
\* giving the exception in flight to the error handler exactly once; with no
\* exception in flight the handler is not called.
C13_ExitSuppressesAndNotifiesOnce ==
    [][last'.op = "exit"
         => /\ last'.exc = "none"
            /\ last'.suppress
            /\ \E value \in ExitValues :
                 /\ last'.args = <<value>>
                 /\ last'.handled = IF value = "None" THEN <<>>
                                    ELSE <<<<"Connection failure", value>>>>]_vars

\* a connected scope is left with a ConnectionError in flight
C13_Witness ==
    /\ last.op = "exit"
    /\ last.was.connected
    /\ last.args = <<"ConnectionError">>
    /\ last.suppress
    /\ Len(last.handled) = 1

\* C14 (as claimed): __enter__ calls connect; when connect succeeds it yields
\* the connector, which is now connected, and the handler is not called; when
\* connect fails with a connection error the handler is given the error,
\* None is yielded and the connection state is as it was.
C14_Enter ==
    [][last'.op = "enter"
         => /\ last'.exc = "none"
            /\ \/ /\ last'.yielded = "self"
                  /\ connected'
                  /\ last'.handled = <<>>
               \/ /\ last'.yielded = "None"
                  /\ last'.handled
                       = <<<<"Error while establishing connection", "ConnectionError">>>>
                  /\ UNCHANGED <<connected, redis_connection>>]_vars

(***************************************************************************)
(* C15: when the connector's push_to_queue fails, the failure reaches the  *)
(* caller of the Job operation unchanged, through Sidekiq.push_to_queue    *)
(* and SidekiqQueue.enqueue: the same exception, the push attempted once,  *)
(* no job id and no payload returned, and the connector and the backend    *)
(* as the failed push left them.                                           *)
(***************************************************************************)
C15_FailedPushPropagates ==
    [][last'.op \in ScheduleOps =>
          LET pushed == Call_push_to_queue(kind, C, B, tz, clock',
                            <<last'.name, last'.data, SIDEKIQ_ENQUEUED,
                              Sidekiq_init.queue_namespace>>)
          IN  pushed.exc # "none" =>
                  /\ last'.exc = pushed.exc
                  /\ last'.calls = 1
                  /\ last'.ret = None
                  /\ last'.payload = EmptyDict
                  /\ connected' = pushed.c.connected
                  /\ redis_connection' = pushed.c.conn
                  /\ registry' = pushed.b.registry
                  /\ lists' = pushed.b.lists]_vars

\* a scheduling call whose push failed, on a disconnected connector
C15_Witness ==
    /\ last.op \in ScheduleOps
    /\ ~last.was.connected
    /\ last.exc # "none"
    /\ last.calls = 1
    /\ last.ret = None

(***************************************************************************)
(* C11 (as claimed): a queue built without a namespace of its own on a     *)
(* Sidekiq that was given the namespace with prefix P has the full name    *)
(* that namespace makes of it, "P:queue:N", and a scheduling call on a     *)
(* connected RedisConnector puts its record in the list of that name.      *)
(***************************************************************************)
C11_DefaultNamespaceNamesQueue ==
    [][LET full == Namespace_get_full_name([prefix |-> last'.namespace],
                                           [name |-> last'.name])
       IN  /\ last'.op = "get_full_name_under"
                => last'.exc = "none" /\ last'.ret = full
           /\ (last'.op = "perform_in_under" /\ kind = "redis" /\ connected)
                => /\ last'.exc = "none"
                   /\ Len(ListAt(lists', full)) = Len(ListAt(lists, full)) + 1]_vars

(***************************************************************************)
(* C16 (as claimed): a scheduling call on a connected RedisConnector       *)
(* succeeds, and the job id it returns and the 'jid' and 'enqueued_at' of  *)
(* the payload enqueue returned are the 'jid' and 'enqueued_at' of the     *)
(* record now at the head of the queue's list.                             *)
(***************************************************************************)
C16_ReturnedMatchesWritten ==
    [][(last'.op \in ScheduleOps /\ kind = "redis" /\ connected)
         => /\ last'.exc = "none"
            /\ ListAt(lists', FullName(last'.name)) # <<>>
            /\ LET written == Head(ListAt(lists', FullName(last'.name))).json
               IN  /\ last'.ret = written[SIDEKIQ_JOB_ID]
                   /\ last'.payload[SIDEKIQ_JOB_ID] = written[SIDEKIQ_JOB_ID]
                   /\ last'.payload[SIDEKIQ_ENQUEUED] = written[SIDEKIQ_ENQUEUED]]_vars

(***************************************************************************)
(* C17: a RedisConnector that adopts an existing connection, through       *)
(* from_existing_connection or reuse_connection on a disconnected          *)
(* connector, is connected at once and holds that connection; on it        *)
(* push_to_queue succeeds without a connect and connect fails as already   *)
(* connected; reuse_connection on a connected connector fails and leaves   *)
(* the state and the connection held as they were.                         *)
(***************************************************************************)
C17_AdoptedIsConnected ==
    [][/\ last'.op = "from_existing_connection"
            => last'.exc = "none" /\ connected' /\ redis_connection' = "adopted"
       /\ last'.op = "reuse_connection"
            => IF connected
               THEN /\ last'.exc = "ConnectionError"
                    /\ UNCHANGED <<connected, redis_connection>>
               ELSE /\ last'.exc = "none"
                    /\ connected'
                    /\ redis_connection' = "adopted"
       /\ (kind = "redis" /\ connected /\ redis_connection = "adopted")
            => /\ last'.op = "push_to_queue"
                    => /\ last'.exc = "none"
                       /\ Len(ListAt(lists', FullName(last'.name)))
                            = Len(ListAt(lists, FullName(last'.name))) + 1
               /\ last'.op = "connect"
                    => /\ last'.exc = "ConnectionError"
                       /\ UNCHANGED <<connected, redis_connection>>]_vars

\* a push that succeeded on an adopted connection
C17_Witness ==
    /\ last.op = "push_to_queue"
    /\ last.exc = "none"
    /\ last.was = [connected |-> TRUE, conn |-> "adopted"]
    /\ registry # {}

\* C18 (as claimed): the connection state changes only in a call of connect
\* or disconnect, made directly or by __enter__ and __exit__.
C18_OnlyConnectAndDisconnect ==
    [][connected' # connected
         => last'.op \in {"connect", "disconnect", "enter", "exit"}]_vars

(***************************************************************************)
(* C18 (amended): the connection state changes only in a call of connect,  *)
(* disconnect or RedisConnector.reuse_connection, made directly or by      *)
(* __enter__, __exit__ and from_existing_connection; push_to_queue,        *)
(* successful or failed, and every call that fails, of connect, disconnect *)
(* and reuse_connection too, leave it as it was.                           *)
(***************************************************************************)
C18_StateChangers ==
    [][/\ connected' # connected
            => last'.op \in {"connect", "disconnect", "reuse_connection",
                             "from_existing_connection", "enter", "exit"}
       /\ last'.exc # "none" => connected' = connected
       /\ last'.op = "push_to_queue" => connected' = connected]_vars

\* reuse_connection has connected the connector, and a second
\* reuse_connection has failed and left it connected
C18_Witness ==
    /\ last.op = "reuse_connection"
    /\ last.exc = "ConnectionError"
    /\ last.was = [connected |-> TRUE, conn |-> "adopted"]
    /\ connected

(***************************************************************************)
(* C19: push_to_queue writes the registry first and the list second, so a  *)
(* push interrupted in its second write has added the queue name to        *)
(* 'queues' and nothing to the list, one interrupted in its first write    *)
(* has written nothing; and in every reachable state of the backend each   *)
(* list that holds a record is the list of a name in 'queues'.             *)
(***************************************************************************)
C19_RecordedQueuesAreRegistered ==
    /\ [](\A key \in DOMAIN lists :
             lists[key] # <<>>
               => \E n \in registry : SIDEKIQ_QUEUE_TPL_format(n) = key)
    /\ [][(last'.op = "push_interrupted" /\ last'.exc = "RedisError")
             => /\ lists' = lists
                /\ registry' = IF last'.args = <<"sadd">> THEN registry
                                ELSE registry \cup {last'.name}]_vars

\* the converse fails: an interrupted push has left a name in 'queues' whose
\* list holds no record
C19_Witness ==
    /\ last.op = "push_interrupted"
    /\ last.args = <<"lpush">>
    /\ last.name \in registry
    /\ ListAt(lists, SIDEKIQ_QUEUE_TPL_format(last.name)) = <<>>

(***************************************************************************)
(* C20: a successful push on the RedisConnector puts its record at the     *)
(* head of the queue's list, before the records pushed earlier, which keep *)
(* their order, and leaves every other list as it was; so each list holds  *)
(* its records newest first.                                               *)
(***************************************************************************)
C20_NewestAtHead ==
    [][(last'.op = "push_to_queue" /\ kind = "redis" /\ last'.exc = "none")
         => LET key == SIDEKIQ_QUEUE_TPL_format(last'.name)
            IN  /\ DOMAIN lists' = DOMAIN lists \cup {key}
                /\ Head(lists'[key]).json[SIDEKIQ_ENQUEUED] = timestamp(tz, last'.now)
                /\ Tail(lists'[key]) = ListAt(lists, key)
                /\ \A other \in DOMAIN lists \ {key} :
                       lists'[other] = lists[other]]_vars

\* a list of two records pushed at different instants, the later one at
\* the head, while another queue has been pushed to in between or not at all
C20_Witness ==
    /\ last.op = "push_to_queue"
    /\ last.exc = "none"
    /\ LET l == ListAt(lists, SIDEKIQ_QUEUE_TPL_format(last.name))
       IN  /\ Len(l) = 2
           /\ l[1].json[SIDEKIQ_ENQUEUED] > l[2].json[SIDEKIQ_ENQUEUED]

(***************************************************************************)
(* C21 (as claimed): a scheduling call on a connected connector succeeds;  *)
(* the mapping enqueue built and handed to Sidekiq.push_to_queue has       *)
(* neither 'jid' nor 'enqueued_at' after the call, and the mapping that    *)
(* came back is that mapping with exactly 'jid' and 'enqueued_at' added.   *)
(***************************************************************************)
C21_PushWorksOnCopies ==
    [][(last'.op \in ScheduleOps /\ connected)
         => /\ last'.exc = "none"
            /\ SIDEKIQ_JOB_ID \notin DOMAIN last'.data
            /\ SIDEKIQ_ENQUEUED \notin DOMAIN last'.data
            /\ DOMAIN last'.payload
                 = DOMAIN last'.data \cup {SIDEKIQ_JOB_ID, SIDEKIQ_ENQUEUED}
            /\ \A k \in DOMAIN last'.data : last'.payload[k] = last'.data[k]]_vars

(***************************************************************************)
(* C22 (as claimed): a scheduling call on a connected RedisConnector       *)
(* writes a record, and every record in a list that such calls wrote has   *)
(* the fields class, at, args, created_at, queue, enqueued_at and the      *)
(* 'jid' that Sidekiq.push_to_queue put in before it called the connector. *)
(***************************************************************************)
C22_EnqueuedRecordCarriesJid ==
    [][(last'.op \in ScheduleOps /\ kind = "redis" /\ connected)
         => /\ last'.exc = "none"
            /\ ListAt(lists', FullName(last'.name)) # <<>>
            /\ LET written == Head(ListAt(lists', FullName(last'.name))).json
               IN  /\ DOMAIN written
                        = {SIDEKIQ_CLASS_NAME, SIDEKIQ_SCHEDULE_AT, SIDEKIQ_ARGS,
                           SIDEKIQ_CREATED, SIDEKIQ_QUEUE, SIDEKIQ_ENQUEUED,
                           SIDEKIQ_JOB_ID}
                   /\ IsJobId(written[SIDEKIQ_JOB_ID])]_vars

(***************************************************************************)
(* C24 (as claimed): __enter__ on a connected connector gives the          *)
(* already-connected error to the handler, yields None and leaves the      *)
(* connector connected; the __exit__ of that scope disconnects it; a       *)
(* push_to_queue made while it is disconnected fails as not connected; and *)
(* an __exit__ on the disconnected connector raises nothing.               *)
(***************************************************************************)
C24_NestedScope ==
    [][/\ (last'.op = "enter" /\ connected)
            => /\ last'.exc = "none"
               /\ last'.yielded = "None"
               /\ last'.handled
                    = <<<<"Error while establishing connection", "ConnectionError">>>>
               /\ UNCHANGED <<connected, redis_connection>>
       /\ (last'.op = "exit" /\ connected) => last'.exc = "none" /\ ~connected'
       /\ (last'.op = "exit" /\ ~connected) => last'.exc = "none" /\ ~connected'
       /\ (last'.op = "push_to_queue" /\ ~connected)
            => last'.exc = "ConnectionError"]_vars

(***************************************************************************)
(* C25: on a RedisConnector the state is connected exactly when a          *)
(* connection is held; a disconnect that succeeds leaves no connection     *)
(* held, an adopted one included, and a connect that succeeds holds a      *)
(* connection it opened itself, never the one adopted before.              *)
(***************************************************************************)
C25_ConnectedIffConnectionHeld ==
    /\ [](kind = "redis" => (connected <=> redis_connection # "None"))
    /\ [][kind = "redis"
             => /\ (last'.op = "disconnect" /\ last'.exc = "none")
                     => redis_connection' = "None"
                /\ (last'.op = "connect" /\ last'.exc = "none")
                     => redis_connection' = "own"]_vars

\* a disconnect has discarded an adopted connection
C25_Witness ==
    /\ kind = "redis"
    /\ last.op = "disconnect"
    /\ last.exc = "none"
    /\ last.was = [connected |-> TRUE, conn |-> "adopted"]
    /\ ~connected
    /\ redis_connection = "None"

(***************************************************************************)
(* C23: where every call of the connector is made under one mutex, the     *)
(* connector is never left disconnected with a connection held, nor        *)
(* connected with none, when no call is under way, and no write reaches    *)
(* the backend while the connector is disconnected.  Without the mutex     *)
(* both happen: see the witness.                                           *)
(***************************************************************************)
AllIdle == \A t \in Threads : pc[t] = Idle

C23_MutexKeepsStateMachine ==
    locking => /\ ~late_write
               /\ AllIdle => (connected <=> redis_connection # "None")

\* without the mutex: a push wrote after a disconnect had completed, and
\* then both threads called connect, both returned normally, and the
\* connector is disconnected with a connection held
C23_Witness ==
    /\ ~locking
    /\ late_write
    /\ \A t \in Threads :
          pc[t] = Idle /\ local[t].op = "connect" /\ local[t].exc = "none"
    /\ ~connected
    /\ redis_connection # "None"

====
